---- MODULE Spec2Model ----
(***************************************************************************)
(* File Eraser: the erase engine (erase_file), the target resolver         *)
(* (get_all_files) and the batch coordinator (EraseWorker.run / stop,      *)
(* started by FileEraserApp.start_erasing), modelled from src/main.py.     *)
(*                                                                         *)
(* Bytes are their ASCII codes; a file's content is a sequence of bytes.   *)
(***************************************************************************)
EXTENDS Integers, Sequences, FiniteSets, TLC

\* ------------------------------------------------------------------ bounds

\* Largest original file size drawn in Init.
MaxSize == 15

\* Largest number of configured targets (files_to_erase + folders_to_erase).
MaxTargets == 2

\* Largest number of outside disturbances in one behaviour: operating-system
\* calls that fail and files removed by another program.
MaxFaults == 1

\* Largest number of configured targets when the application is started
\* again after a run.
MaxRerunTargets == 1

\* Largest number of configured targets when termination is checked.
MaxFairTargets == 1

\* ------------------------------------------------------- the file system

\* The directory tree the model runs on: directory d holds file a and
\* directory s, which holds file c; directory e holds files 1, 2, 3 and
\* directory n, which holds files 4 and 5; x names nothing.
FilePaths == {"d/a", "d/s/c", "e/1", "e/2", "e/3", "e/n/4", "e/n/5"}

DirPaths == {"d", "d/s", "e", "e/n"}

\* The targets a batch run is configured with.
Targets == {"d/s/c", "d", "d/s", "x"}

\* The targets the resolver is applied to on its own.
ResolveTargets == Targets \cup {"e", "e/n", "e/2"}

\* The files whose size Init draws: those a batch run can reach.
Drawn == {"d/a", "d/s/c"}

\* The entries of a directory.
Children(dir) ==
    CASE dir = "d" -> {"d/a", "d/s"}
      [] dir = "d/s" -> {"d/s/c"}
      [] dir = "e" -> {"e/1", "e/2", "e/3", "e/n"}
      [] dir = "e/n" -> {"e/n/4", "e/n/5"}
      [] OTHER -> {}

\* The orders in which the elements of S can be listed.
Perms(S) ==
    {s \in [1..Cardinality(S) -> S] : \A x \in S : \E k \in DOMAIN s : s[k] = x}

RECURSIVE Below(_)
\* Directory dir and the directories at any depth below it.
Below(dir) ==
    {dir} \cup UNION {Below(kid) : kid \in Children(dir) \cap DirPaths}

\* The directories get_all_files lists for these targets.
Scanned(paths) ==
    UNION {Below(paths[k]) :
              k \in {j \in 1..Len(paths) : paths[j] \in DirPaths}}

\* os.scandir: the entries of dir in an order the host file system chooses
\* (one order stands for a directory that is not listed).
Orders(dir, paths) ==
    IF dir \in Scanned(paths) THEN Perms(Children(dir))
    ELSE {CHOOSE s \in Perms(Children(dir)) : TRUE}

\* The listings get_all_files can be given for these targets.
Listings(paths) ==
    {("d" :> a) @@ ("d/s" :> b) @@ ("e" :> c) @@ ("e/n" :> f) :
        a \in Orders("d", paths), b \in Orders("d/s", paths),
        c \in Orders("e", paths), f \in Orders("e/n", paths)}

\* Path.name: the last component of a path.
Name(p) ==
    CASE p = "d/a" -> "a"
      [] p = "d/s/c" -> "c"
      [] p = "d/s" -> "s"
      [] p = "e/1" -> "1"
      [] p = "e/2" -> "2"
      [] p = "e/3" -> "3"
      [] p = "e/n" -> "n"
      [] p = "e/n/4" -> "4"
      [] p = "e/n/5" -> "5"
      [] OTHER -> p

\* The content of an input file of n bytes: the digits 0..9 repeated.
Content(n) == [k \in 1..n |-> 48 + ((k - 1) % 10)]

Sizes == {0, 1, MaxSize}

VARIABLES
    disk,             \* path -> [exists, data]: the files on disk
    all_paths,        \* start_erasing: the configured targets
    files,            \* EraseWorker.files
    is_running,       \* EraseWorker.is_running (the cancellation flag)
    pc,               \* where the application / worker thread stands
    i,                \* run: the loop index (files already taken)
    total,            \* run: len(self.files)
    success_count,    \* run
    fail_count,       \* run
    original_content, \* erase_file local
    new_size,         \* erase_file local
    cur_pass,         \* erase_file: the step (1..4) being executed
    buf,              \* erase_file: the bytes the current step writes
    fopen,            \* erase_file: TRUE while the handle f is open
    result,           \* erase_file: the value being returned
    events,           \* every signal emitted so far, in order
    call,             \* history of the erase_file call in progress
    calls,            \* history: one record per erase_file call returned
    nfaults,          \* history: outside disturbances so far
    stop_at           \* history: where the worker stood at the first stop()

vars == <<disk, all_paths, files, is_running, pc, i, total, success_count,
          fail_count, original_content, new_size, cur_pass, buf, fopen,
          result, events, call, calls, nfaults, stop_at>>

eraseLocals == <<original_content, new_size, cur_pass, buf, fopen, result>>

counters == <<i, total, success_count, fail_count>>

\* ------------------------------------------------------ get_all_files

RECURSIVE SeqsUpTo(_, _)
\* All sequences over S of length at most n.
SeqsUpTo(S, n) ==
    IF n = 0 THEN {<<>>}
    ELSE LET shorter == SeqsUpTo(S, n - 1)
         IN shorter \cup {Append(s, x) : s \in shorter, x \in S}

is_file(d, p) == p \in FilePaths /\ d[p].exists

is_dir(d, p) == p \in DirPaths

\* glob('*'): the entries of dir itself only.
rglob_Shallow(ls, dir) == ls[dir]

RECURSIVE rglob(_, _)
\* Path.rglob('*'): every descendant of dir; the entries of a directory
\* first, then those of each of its sub-directories in turn, every directory
\* in the order ls lists it.
rglob(ls, dir) ==
    LET kids == ls[dir]
        below[k \in 0..Len(kids)] ==
            IF k = 0 THEN <<>>
            ELSE below[k - 1] \o
                 (IF kids[k] \in DirPaths THEN rglob(ls, kids[k])
                  ELSE <<>>)
    IN kids \o below[Len(kids)]

\* for file_path in ...: if file_path.is_file(): the entries of s that are
\* files, in order.
FilesOf(d, s) ==
    LET f[k \in 0..Len(s)] ==
            IF k = 0 THEN <<>>
            ELSE IF is_file(d, s[k]) THEN Append(f[k - 1], s[k])
                 ELSE f[k - 1]
    IN f[Len(s)]

\* A directory's sub-directories are walked a second time.
Contribution_Rewalk(d, ls, path) ==
    IF is_file(d, path) THEN <<path>>
    ELSE IF is_dir(d, path)
         THEN LET all == rglob(ls, path)
                  again[k \in 0..Len(all)] ==
                      IF k = 0 THEN <<>>
                      ELSE again[k - 1] \o
                           (IF all[k] \in DirPaths THEN rglob(ls, all[k])
                            ELSE <<>>)
              IN FilesOf(d, all \o again[Len(all)])
         ELSE <<>>

\* What one target contributes to the list.
Contribution(d, ls, path) ==
    IF is_file(d, path) THEN <<path>>
    ELSE IF is_dir(d, path)
         THEN FilesOf(d, rglob(ls, path))
         ELSE <<>>

get_all_files(d, ls, paths) ==
    LET acc[k \in 0..Len(paths)] ==
            IF k = 0 THEN <<>>
            ELSE acc[k - 1] \o Contribution(d, ls, paths[k])
    IN acc[Len(paths)]

\* ------------------------------------------------------------ erase_file

\* b"hello world "
hello == <<104, 101, 108, 108, 111, 32, 119, 111, 114, 108, 100, 32>>

\* string.ascii_letters: a-z then A-Z
ascii_letters == (97..122) \cup (65..90)

RECURSIVE Repeat(_, _)
\* s * n
Repeat(s, n) == IF n <= 0 THEN <<>> ELSE s \o Repeat(s, n - 1)

\* s[:n]
Prefix(s, n) == SubSeq(s, 1, IF n < Len(s) THEN n ELSE Len(s))

\* int(original_size * 0.9): the double product truncated, which is
\* floor(9n/10) for every size a file can have here.
NewSize(n) == (n * 9) \div 10

\* (b"hello world " * (new_size // 12 + 1))[:new_size]
hello_data(n) == Prefix(Repeat(hello, n \div 12 + 1), n)

\* The outcomes of ''.join(random.choices(string.ascii_letters, k=n)).encode()
random_letters(n) == [1..n -> ascii_letters]

\* What is remembered of the erase_file call in progress.
NoCall == [idx |-> 0, path |-> "", existed |-> FALSE, size0 |-> 0,
           fault |-> <<"none", 0>>, exc |-> "none", notified |-> <<>>,
           written |-> {}, synced |-> {}, sizes |-> <<>>,
           removed |-> FALSE]

\* ---------------------------------------------------------------- events

\* A signal emitted by the worker: sig is the Qt signal, x and y its numbers
\* (or the step of a "Step x/4" message), name the file name in the message;
\* of is the position in the list of the file it belongs to (0: none).

\* The index is emitted as enumerate gives it, from zero.
EvFileProgress_ZeroBased(cur, tot) ==
    [sig |-> "file_progress", kind |-> "", x |-> cur - 1, y |-> tot,
     name |-> "", of |-> cur]

\* self.file_progress.emit(i + 1, total)
EvFileProgress(cur, tot) ==
    [sig |-> "file_progress", kind |-> "", x |-> cur, y |-> tot,
     name |-> "", of |-> cur]

EvProcessing(cur, tot, p) ==
    [sig |-> "progress", kind |-> "processing", x |-> cur, y |-> tot,
     name |-> Name(p), of |-> cur]

EvStep(step, p, cur) ==
    [sig |-> "progress", kind |-> "step", x |-> step, y |-> 4,
     name |-> Name(p), of |-> cur]

EvStopped ==
    [sig |-> "progress", kind |-> "stopped", x |-> 0, y |-> 0,
     name |-> "", of |-> 0]

EvFinished(s, f) ==
    [sig |-> "finished_signal", kind |-> "", x |-> s, y |-> f,
     name |-> "", of |-> 0]

\* ------------------------------------------------------------------ Init

\* The application after construction, before start_erasing is clicked.
Idle ==
    /\ files = <<>>
    /\ is_running = TRUE
    /\ pc = "idle"
    /\ i = 0
    /\ total = 0
    /\ success_count = 0
    /\ fail_count = 0
    /\ original_content = <<>>
    /\ new_size = 0
    /\ cur_pass = 0
    /\ buf = <<>>
    /\ fopen = FALSE
    /\ result = FALSE
    /\ events = <<>>
    /\ call = NoCall
    /\ calls = <<>>
    /\ nfaults = 0
    /\ stop_at = [called |-> FALSE, done |-> 0, phase |-> "none"]

\* A batch of up to n targets out of T: every file exists, the reachable
\* ones with a drawn size.
Batch(T, n) ==
    /\ all_paths \in SeqsUpTo(T, n)
    /\ \E sz \in [Drawn -> Sizes] :
          disk = [p \in FilePaths |->
                    [exists |-> TRUE,
                     data |-> Content(IF p \in Drawn THEN sz[p] ELSE 1)]]
    /\ Idle

Init == Batch(Targets, MaxTargets)

InitFair == Batch(Targets, MaxFairTargets)

\* The targets configured when the application is started again after a
\* run: a directory with two files, and a path that names nothing.
RerunTargets == {"d", "x"}

InitRerun == Batch(RerunTargets, MaxRerunTargets)

\* The resolver on its own: any targets over any set of existing files.
InitResolve ==
    /\ all_paths \in SeqsUpTo(ResolveTargets, MaxTargets)
    /\ \E present \in SUBSET FilePaths :
          disk = [p \in FilePaths |->
                    IF p \in present
                    THEN [exists |-> TRUE, data |-> Content(1)]
                    ELSE [exists |-> FALSE, data |-> <<>>]]
    /\ Idle

\* ------------------------------------------------- FileEraserApp (caller)

\* start_erasing up to the confirmation dialog: resolve the targets.
StartErasing ==
    /\ pc = "idle"
    /\ \E ls \in Listings(all_paths) :
          LET found == IF all_paths = <<>> THEN <<>>
                       ELSE get_all_files(disk, ls, all_paths)
          IN /\ files' = found
             /\ pc' = IF found = <<>> THEN "no_files" ELSE "confirm"
    /\ UNCHANGED <<disk, all_paths, is_running, counters, eraseLocals,
                   events, call, calls, nfaults, stop_at>>

\* The dialog is answered: Yes builds the worker, whose flag starts set, and
\* starts its thread; No returns and leaves self.worker as it was.
Confirm ==
    /\ pc = "confirm"
    /\ \E yes \in BOOLEAN :
          /\ pc' = IF yes THEN "run" ELSE "declined"
          /\ is_running' = IF yes THEN TRUE ELSE is_running
    /\ UNCHANGED <<disk, all_paths, files, counters, eraseLocals, events,
                   call, calls, nfaults, stop_at>>

InErase == pc \in {"exists", "read", "open", "write", "sync", "ret"}

\* Another program removes a listed file, at any moment of the run; it
\* counts against the budget of outside disturbances. call.removed notes
\* that it hit the file of the erase_file call in progress.
ExternalRemove ==
    /\ nfaults < MaxFaults
    /\ nfaults' = nfaults + 1
    /\ \E k \in 1..Len(files) :
          /\ disk[files[k]].exists
          /\ disk' = [disk EXCEPT ![files[k]] =
                                   [exists |-> FALSE, data |-> <<>>]]
          /\ call' = IF InErase /\ files[k] = call.path
                     THEN [call EXCEPT !.removed = TRUE]
                     ELSE call
    /\ UNCHANGED <<all_paths, files, is_running, pc, counters, eraseLocals,
                   events, calls, stop_at>>

\* if self.worker: a worker has been built, by this start or an earlier one
\* (self.worker is never reset; every worker built has emitted finished_signal
\* by the time the next start is possible).
WorkerExists ==
    \/ pc \in {"run", "loop", "finish", "done"}
    \/ InErase
    \/ events # <<>>

\* Where the worker stands, as a stop() sees it.
Phase ==
    CASE pc \in {"run", "loop"} -> "between"
      [] InErase -> "during"
      [] OTHER -> "after"

\* A stop() that also aborts the erase_file call in flight.
Stop_Interrupting ==
    /\ WorkerExists
    /\ is_running' = FALSE
    /\ stop_at' = IF stop_at.called THEN stop_at
                  ELSE [called |-> TRUE, done |-> Len(calls), phase |-> Phase]
    /\ pc' = IF InErase THEN "ret" ELSE pc
    /\ result' = IF InErase THEN FALSE ELSE result
    /\ UNCHANGED <<disk, all_paths, files, counters, original_content,
                   new_size, cur_pass, buf, fopen, events, call, calls,
                   nfaults>>

\* EraseWorker.stop, called through stop_erasing (self.worker is set).
Stop ==
    /\ WorkerExists
    /\ is_running' = FALSE
    /\ stop_at' = IF stop_at.called THEN stop_at
                  ELSE [called |-> TRUE, done |-> Len(calls), phase |-> Phase]
    /\ UNCHANGED <<disk, all_paths, files, pc, counters, eraseLocals, events,
                   call, calls, nfaults>>

\* ----------------------------------------------------- EraseWorker.run

\* The counters outlive the worker: a later run counts on from them.
RunStart_KeepsCounters ==
    /\ pc = "run"
    /\ i' = 0
    /\ total' = Len(files)
    /\ pc' = "loop"
    /\ UNCHANGED <<disk, all_paths, files, is_running, success_count,
                   fail_count, eraseLocals, events, call, calls, nfaults,
                   stop_at>>

\* run, up to the loop: the counters start at zero.
RunStart ==
    /\ pc = "run"
    /\ i' = 0
    /\ success_count' = 0
    /\ fail_count' = 0
    /\ total' = Len(files)
    /\ pc' = "loop"
    /\ UNCHANGED <<disk, all_paths, files, is_running, eraseLocals, events,
                   call, calls, nfaults, stop_at>>

\* The loop never looks at the flag.
CancelRequested_Never(flag) == FALSE

\* if not self.is_running
CancelRequested(flag) == ~flag

\* The flag is looked at once more when the list is exhausted.
ForExhausted_ChecksFlag ==
    /\ pc = "loop"
    /\ i = total
    /\ pc' = "finish"
    /\ events' = IF is_running THEN events ELSE Append(events, EvStopped)
    /\ UNCHANGED <<disk, all_paths, files, is_running, counters, eraseLocals,
                   call, calls, nfaults, stop_at>>

\* The for loop has no entry left.
ForExhausted ==
    /\ pc = "loop"
    /\ i = total
    /\ pc' = "finish"
    /\ UNCHANGED <<disk, all_paths, files, is_running, counters, eraseLocals,
                   events, call, calls, nfaults, stop_at>>

\* The loop takes the next entry, finds the flag cleared, and breaks.
StopCheckBreak ==
    /\ pc = "loop"
    /\ i < total
    /\ CancelRequested(is_running)
    /\ events' = Append(events, EvStopped)
    /\ pc' = "finish"
    /\ UNCHANGED <<disk, all_paths, files, is_running, counters, eraseLocals,
                   call, calls, nfaults, stop_at>>

\* The list is walked from its end.
CurrentEntry_Reversed(fs, idx) == fs[Len(fs) - idx]

\* for i, file_path in enumerate(self.files): the entry taken after idx
\* entries.
CurrentEntry(fs, idx) == fs[idx + 1]

\* The loop takes the next entry, emits its two signals and calls erase_file.
BeginFile ==
    /\ pc = "loop"
    /\ i < total
    /\ ~CancelRequested(is_running)
    /\ LET path == CurrentEntry(files, i)
       IN /\ events' = events \o <<EvFileProgress(i + 1, total),
                                   EvProcessing(i + 1, total, path)>>
          /\ call' = [NoCall EXCEPT !.idx = i + 1, !.path = path,
                                    !.existed = disk[path].exists,
                                    !.size0 = Len(disk[path].data)]
    /\ original_content' = <<>>
    /\ new_size' = 0
    /\ cur_pass' = 0
    /\ buf' = <<>>
    /\ fopen' = FALSE
    /\ result' = FALSE
    /\ pc' = "exists"
    /\ UNCHANGED <<disk, all_paths, files, is_running, counters, calls,
                   nfaults, stop_at>>

\* ------------------------------------------------------------ erase_file

\* Whether an operating-system call succeeds: it may fail while the budget
\* of outside disturbances lasts.
OsOutcomes == IF nfaults < MaxFaults THEN {TRUE, FALSE} ELSE {TRUE}

\* The exception is not caught: it leaves run and ends the thread.
RaiseOSError_Uncaught(op) ==
    /\ call' = [call EXCEPT !.fault = <<op, cur_pass>>, !.exc = "OSError"]
    /\ nfaults' = nfaults + 1
    /\ fopen' = FALSE
    /\ result' = FALSE
    /\ pc' = "crashed"

\* The exception is swallowed and the call reports success.
RaiseOSError_ReturnsTrue(op) ==
    /\ call' = [call EXCEPT !.fault = <<op, cur_pass>>, !.exc = "OSError"]
    /\ nfaults' = nfaults + 1
    /\ fopen' = FALSE
    /\ result' = TRUE
    /\ pc' = "ret"

\* An operating-system call raises OSError: except Exception returns False.
RaiseOSError(op) ==
    /\ call' = [call EXCEPT !.fault = <<op, cur_pass>>, !.exc = "OSError"]
    /\ nfaults' = nfaults + 1
    /\ fopen' = FALSE
    /\ result' = FALSE
    /\ pc' = "ret"

\* A missing file counts as already erased.
EraseExists_ReturnsTrue ==
    /\ pc = "exists"
    /\ IF disk[call.path].exists
       THEN /\ pc' = "read"
            /\ UNCHANGED result
       ELSE /\ pc' = "ret"
            /\ result' = TRUE
    /\ UNCHANGED <<disk, all_paths, files, is_running, counters,
                   original_content, new_size, cur_pass, buf, fopen, events,
                   call, calls, nfaults, stop_at>>

\* The existence test opens the path in a mode that creates it.
EraseExists_Creates ==
    /\ pc = "exists"
    /\ IF disk[call.path].exists
       THEN /\ pc' = "read"
            /\ UNCHANGED <<result, disk>>
       ELSE /\ pc' = "ret"
            /\ result' = FALSE
            /\ disk' = [disk EXCEPT ![call.path] =
                                     [exists |-> TRUE, data |-> <<>>]]
    /\ UNCHANGED <<all_paths, files, is_running, counters,
                   original_content, new_size, cur_pass, buf, fopen, events,
                   call, calls, nfaults, stop_at>>

\* if not file_path.exists(): return False
EraseExists ==
    /\ pc = "exists"
    /\ IF disk[call.path].exists
       THEN /\ pc' = "read"
            /\ UNCHANGED result
       ELSE /\ pc' = "ret"
            /\ result' = FALSE
    /\ UNCHANGED <<disk, all_paths, files, is_running, counters,
                   original_content, new_size, cur_pass, buf, fopen, events,
                   call, calls, nfaults, stop_at>>

\* What open(file_path, 'rb') and read() can do: a file removed since the
\* existence test makes open raise FileNotFoundError.
ReadOutcomes(f) ==
    IF ~f.exists THEN {"gone"}
    ELSE {"ok"} \cup (IF nfaults < MaxFaults THEN {"error"} ELSE {})

\* The size check is missing: an empty file goes through the steps.
EraseRead_NoEmptySkip ==
    /\ pc = "read"
    /\ \E ok \in ReadOutcomes(disk[call.path]) :
          IF ok = "gone"
          THEN /\ call' = [call EXCEPT !.fault = <<"read", cur_pass>>,
                                       !.exc = "OSError"]
               /\ result' = FALSE
               /\ pc' = "ret"
               /\ UNCHANGED <<original_content, cur_pass, fopen, nfaults>>
          ELSE IF ok = "error"
          THEN /\ RaiseOSError("read")
               /\ UNCHANGED <<original_content, cur_pass>>
          ELSE /\ original_content' = disk[call.path].data
               /\ cur_pass' = 1
               /\ pc' = "open"
               /\ UNCHANGED <<result, call, fopen, nfaults>>
    /\ UNCHANGED <<disk, all_paths, files, is_running, counters, new_size,
                   buf, events, calls, stop_at>>

\* Read the content; an empty file is skipped with True.
EraseRead ==
    /\ pc = "read"
    /\ \E ok \in ReadOutcomes(disk[call.path]) :
          IF ok = "gone"
          THEN /\ call' = [call EXCEPT !.fault = <<"read", cur_pass>>,
                                       !.exc = "OSError"]
               /\ result' = FALSE
               /\ pc' = "ret"
               /\ UNCHANGED <<original_content, cur_pass, fopen, nfaults>>
          ELSE IF ok = "error"
          THEN /\ RaiseOSError("read")
               /\ UNCHANGED <<original_content, cur_pass>>
          ELSE /\ original_content' = disk[call.path].data
               /\ IF Len(original_content') = 0
                  THEN /\ result' = TRUE
                       /\ pc' = "ret"
                       /\ UNCHANGED cur_pass
                  ELSE /\ cur_pass' = 1
                       /\ pc' = "open"
                       /\ UNCHANGED result
               /\ UNCHANGED <<call, fopen, nfaults>>
    /\ UNCHANGED <<disk, all_paths, files, is_running, counters, new_size,
                   buf, events, calls, stop_at>>

\* The bytes step p writes; r is the random draw of step 2.
StepData(p, content, size, r) ==
    CASE p = 1 -> Prefix(content, size)
      [] p = 2 -> r
      [] p = 3 -> hello_data(size)
      [] OTHER -> <<>>

\* A step begins: the progress callback, the step's data, open(path, 'wb'),
\* which truncates the file.
PassOpen ==
    /\ pc = "open"
    /\ LET size == IF cur_pass = 1 THEN NewSize(Len(original_content))
                   ELSE new_size
       IN /\ new_size' = size
          /\ \E r \in (IF cur_pass = 2 THEN random_letters(size) ELSE {<<>>}) :
                buf' = StepData(cur_pass, original_content, size, r)
    /\ events' = Append(events, EvStep(cur_pass, call.path, call.idx))
    /\ \E ok \in OsOutcomes :
          IF ok
          THEN /\ disk' = [disk EXCEPT ![call.path] =
                              [exists |-> TRUE, data |-> <<>>]]
               /\ fopen' = TRUE
               /\ pc' = "write"
               /\ call' = [call EXCEPT !.notified = Append(@, cur_pass)]
               /\ UNCHANGED <<result, nfaults>>
          ELSE /\ call' = [call EXCEPT !.notified = Append(@, cur_pass),
                                       !.fault = <<"open", cur_pass>>,
                                       !.exc = "OSError"]
               /\ nfaults' = nfaults + 1
               /\ fopen' = FALSE
               /\ result' = FALSE
               /\ pc' = "ret"
               /\ UNCHANGED disk
    /\ UNCHANGED <<all_paths, files, is_running, counters, original_content,
                   cur_pass, calls, stop_at>>

\* Step 1 leaves its with block right after the write; steps 2 to 4 flush
\* and fsync inside it.
ClosedAfterWrite(p) == p = 1

\* What a failed write of data can leave in the file: any prefix of it.
PartialWrites(data) == {Prefix(data, k) : k \in 0..Len(data)}

\* The disk once data has gone through the handle open on path: a file
\* removed while the handle was open stays removed.
WriteTo(d, path, data) ==
    IF d[path].exists THEN [d EXCEPT ![path].data = data] ELSE d

\* f.write(data), and for step 1 the close that ends the with block.
PassWrite ==
    /\ pc = "write"
    /\ \E ok \in OsOutcomes :
          IF ok
          THEN /\ disk' = WriteTo(disk, call.path, buf)
               /\ call' = [call EXCEPT !.written = @ \cup {cur_pass},
                                       !.sizes = Append(@, Len(buf))]
               /\ fopen' = ~ClosedAfterWrite(cur_pass)
               /\ pc' = "sync"
               /\ UNCHANGED <<result, nfaults>>
          ELSE /\ \E left \in PartialWrites(buf) :
                     disk' = WriteTo(disk, call.path, left)
               /\ RaiseOSError("write")
    /\ UNCHANGED <<all_paths, files, is_running, counters, original_content,
                   new_size, cur_pass, buf, events, calls, stop_at>>

\* What f.flush(); os.fsync(f.fileno()) can do: flush of a closed file
\* raises ValueError.
SyncOutcomes(open) ==
    IF ~open THEN {"closed"}
    ELSE IF nfaults < MaxFaults THEN {"ok", "flush", "fsync"} ELSE {"ok"}

\* f.flush(); os.fsync(f.fileno()); then the next step, or return True.
PassSync ==
    /\ pc = "sync"
    /\ \E out \in SyncOutcomes(fopen) :
          CASE out = "closed" ->
                 /\ call' = [call EXCEPT !.exc = "ValueError"]
                 /\ fopen' = FALSE
                 /\ result' = FALSE
                 /\ pc' = "ret"
                 /\ UNCHANGED <<cur_pass, nfaults>>
            [] out \in {"flush", "fsync"} ->
                 /\ RaiseOSError(out)
                 /\ UNCHANGED cur_pass
            [] OTHER ->
                 /\ call' = [call EXCEPT !.synced = @ \cup {cur_pass}]
                 /\ fopen' = FALSE
                 /\ UNCHANGED nfaults
                 /\ IF cur_pass = 4
                    THEN /\ result' = TRUE
                         /\ pc' = "ret"
                         /\ UNCHANGED cur_pass
                    ELSE /\ cur_pass' = cur_pass + 1
                         /\ pc' = "open"
                         /\ UNCHANGED result
    /\ UNCHANGED <<disk, all_paths, files, is_running, counters,
                   original_content, new_size, buf, events, calls, stop_at>>

\* The record run keeps of a call that returned.
Returned(c, res) ==
    [idx |-> c.idx, path |-> c.path,
     empty |-> c.existed /\ c.size0 = 0, result |-> res]

\* Every outcome is counted as a success.
Count_AlwaysSuccess(res, s, f) == <<s + 1, f>>

\* if erase_file(...): success_count += 1 else: fail_count += 1
Count(res, s, f) == IF res THEN <<s + 1, f>> ELSE <<s, f + 1>>

\* erase_file returns; run counts the outcome and moves to the next entry.
EraseReturn ==
    /\ pc = "ret"
    /\ calls' = Append(calls, Returned(call, result))
    /\ success_count' = Count(result, success_count, fail_count)[1]
    /\ fail_count' = Count(result, success_count, fail_count)[2]
    /\ i' = i + 1
    /\ pc' = "loop"
    /\ call' = NoCall
    /\ original_content' = <<>>
    /\ new_size' = 0
    /\ cur_pass' = 0
    /\ buf' = <<>>
    /\ fopen' = FALSE
    /\ result' = FALSE
    /\ UNCHANGED <<disk, all_paths, files, is_running, total, events,
                   nfaults, stop_at>>

\* self.finished_signal.emit(success_count, fail_count)
EmitFinished ==
    /\ pc = "finish"
    /\ events' = Append(events, EvFinished(success_count, fail_count))
    /\ pc' = "done"
    /\ UNCHANGED <<disk, all_paths, files, is_running, counters, eraseLocals,
                   call, calls, nfaults, stop_at>>

\* ------------------------------------------------------------------ Spec

Worker ==
    \/ RunStart
    \/ ForExhausted
    \/ StopCheckBreak
    \/ BeginFile
    \/ EraseExists
    \/ EraseRead
    \/ PassOpen
    \/ PassWrite
    \/ PassSync
    \/ EraseReturn
    \/ EmitFinished

Next ==
    \/ StartErasing
    \/ Confirm
    \/ ExternalRemove
    \/ Stop
    \/ Worker

Spec == Init /\ [][Next]_vars

\* The worker thread keeps being scheduled, and every file I/O call returns.
FairSpec == InitFair /\ [][Next]_vars /\ WF_vars(Worker)

\* start_erasing has returned (no files, answer No) or on_erase_finished has
\* enabled the start button again: the application waits for the next click.
\* At most two runs are followed.
StartAgain ==
    /\ pc \in {"done", "declined", "no_files"}
    /\ Cardinality({k \in 1..Len(events) :
                       events[k].sig = "finished_signal"}) < 2
    /\ pc' = "idle"
    /\ UNCHANGED <<disk, all_paths, files, is_running, counters, eraseLocals,
                   events, call, calls, nfaults, stop_at>>

\* add_files, add_folder, clear_list, save_config_from_editor: the
\* configuration is changed. It is read only by the next start_erasing, so
\* the edits made since the last start are taken as one change ahead of it.
ConfigChanged ==
    /\ pc = "idle"
    /\ all_paths' \in SeqsUpTo(RerunTargets, MaxRerunTargets) \ {all_paths}
    /\ UNCHANGED <<disk, files, is_running, pc, counters, eraseLocals,
                   events, call, calls, nfaults, stop_at>>

RerunNext ==
    \/ Next
    \/ StartAgain
    \/ ConfigChanged

\* The batch run, and the application started again after it.
RerunSpec == InitRerun /\ [][RerunNext]_vars

\* get_all_files applied, through start_erasing, to drawn targets and disks.
ResolveSpec == InitResolve /\ [][StartErasing]_vars

\* ------------------------------------------- erase_file, as one function

RECURSIVE EraseSteps(_, _)
\* Steps p..4 of erase_file when the operating-system call named by fault
\* (<<op, step>>, or <<"none", 0>>) fails: the value returned and the steps
\* announced to the progress callback.
EraseSteps(p, fault) ==
    IF fault \in {<<"open", p>>, <<"write", p>>}
    THEN [result |-> FALSE, notified |-> <<p>>]
    ELSE IF ClosedAfterWrite(p)
    THEN [result |-> FALSE, notified |-> <<p>>]
    ELSE IF fault \in {<<"flush", p>>, <<"fsync", p>>}
    THEN [result |-> FALSE, notified |-> <<p>>]
    ELSE IF p = 4
    THEN [result |-> TRUE, notified |-> <<p>>]
    ELSE LET rest == EraseSteps(p + 1, fault)
         IN [result |-> rest.result, notified |-> <<p>> \o rest.notified]

\* erase_file on a path that existed or not, of the given size, under fault.
EraseOutcome(existed, size, fault) ==
    IF ~existed THEN [result |-> FALSE, notified |-> <<>>]
    ELSE IF fault[1] = "read" THEN [result |-> FALSE, notified |-> <<>>]
    ELSE IF size = 0 THEN [result |-> TRUE, notified |-> <<>>]
    ELSE EraseSteps(1, fault)

\* ---------------------------------------------------------------- claims

\* erase_file is about to return from a call on an existing, non-empty file
\* during which no operating-system call failed and no other program removed
\* the file.
FaultFreeReturn ==
    /\ pc = "ret"
    /\ call.existed
    /\ call.size0 > 0
    /\ call.fault[1] = "none"
    /\ ~call.removed

\* C1: for an existing file of size N > 0, when no read, write, flush or
\* fsync fails, erase_file runs all four steps in order (truncate to
\* floor(0.9 N), random letters, 'hello world ', empty) and returns True.
C1_FourPassesThenSuccess ==
    FaultFreeReturn =>
        /\ result = TRUE
        /\ call.notified = <<1, 2, 3, 4>>
        /\ call.written = {1, 2, 3, 4}
        /\ call.sizes = <<NewSize(call.size0), NewSize(call.size0),
                          NewSize(call.size0), 0>>
        /\ disk[call.path].data = <<>>

\* C2: whenever erase_file returns True for a file whose size at read time
\* was N > 0, the file is empty on return.  (No reachable state satisfies the
\* premise: see NoSuccessOnNonEmpty.)
C2_SuccessLeavesEmpty ==
    (pc = "ret" /\ result /\ call.existed /\ call.size0 > 0) =>
        disk[call.path].data = <<>>

\* erase_file never returns True for a file it read as non-empty: step 1's
\* flush of the closed handle always raises.
NoSuccessOnNonEmpty ==
    ~(pc = "ret" /\ result /\ call.size0 > 0)

\* C3: every step whose write completed has had its data flushed and
\* fsync'ed on that step's handle by the time erase_file opens the next step
\* or returns, unless an operating-system call failed; so all of steps 1 to
\* 4 are made durable.
C3_EveryWrittenPassSynced ==
    (pc \in {"open", "ret"} /\ call.fault[1] = "none") =>
        call.written \subseteq call.synced

\* C10: for a file of original size N > 0, the size after step 1 is
\* floor(0.9 N), and the sizes after step 2 and after step 3 are that value.
C10_SizesAfterPasses ==
    FaultFreeReturn =>
        /\ Len(call.sizes) >= 3
        /\ \A p \in 1..3 : call.sizes[p] = NewSize(call.size0)

\* The finished signals emitted so far.
Finished == {k \in 1..Len(events) : events[k].sig = "finished_signal"}

\* C4: in a batch of k files, if stop() is first called after file j has
\* returned and before file j+1 is checked (0 <= j < k), exactly j files are
\* passed to erase_file, the other k-j are never started, and the finished
\* signal reports success_count + fail_count = j.
C4_StopBetweenFiles ==
    (stop_at.called /\ stop_at.phase = "between"
                    /\ stop_at.done < Len(files)) =>
        LET j == stop_at.done
        IN /\ ~InErase
           /\ Len(calls) = j
           /\ \A n \in 1..j : calls[n].idx = n /\ calls[n].path = files[n]
           /\ \A k \in 1..Len(events) : events[k].of <= j
           /\ pc = "done" =>
                 /\ events[Len(events)].sig = "finished_signal"
                 /\ events[Len(events)].x + events[Len(events)].y = j

\* A run stopped between files, after some but not all were erased, is over.
W4_StoppedBetweenFiles ==
    /\ pc = "done"
    /\ stop_at.called
    /\ stop_at.phase = "between"
    /\ stop_at.done > 0
    /\ stop_at.done < Len(files)
    /\ Len(calls) = stop_at.done

\* C5: under every interleaving of stop() with run(), if the flag is first
\* set while file n is in progress (its check already passed), file n's
\* steps and result are those of erase_file without the stop (compared when
\* no other program removed the file during the call), and erase_file is
\* never called for file n+1 or a later file.
C5_StopDuringFile ==
    (stop_at.called /\ stop_at.phase = "during") =>
        LET n == stop_at.done + 1
        IN /\ Len(calls) <= n
           /\ InErase => call.idx = n
           /\ \A k \in 1..Len(events) : events[k].of <= n
           /\ (pc = "ret" /\ call.idx = n /\ ~call.removed) =>
                 LET o == EraseOutcome(call.existed, call.size0, call.fault)
                 IN /\ result = o.result
                    /\ call.notified = o.notified
           /\ Len(calls) = n =>
                 calls[n].idx = n /\ ~InErase

\* stop() came while a file other than the last was being erased; that file
\* went through step 1 and the run is over.
W5_StoppedDuringFile ==
    /\ pc = "done"
    /\ stop_at.called
    /\ stop_at.phase = "during"
    /\ Len(calls) = stop_at.done + 1
    /\ Len(calls) < Len(files)
    /\ \E k \in 1..Len(events) :
          events[k].kind = "step" /\ events[k].of = Len(calls)

\* The entries of the list for which no file_progress signal was emitted.
NotReached ==
    {n \in 1..Len(files) :
        \A k \in 1..Len(events) :
            ~(events[k].sig = "file_progress" /\ events[k].x = n)}

Successes == {n \in 1..Len(calls) : calls[n].result}

Failures == {n \in 1..Len(calls) : ~calls[n].result}

\* C6: every started batch run eventually ends (completed or cancelled) and
\* emits the finished signal exactly once, whatever the per-file outcomes
\* and whenever stop() is called.
C6_FinishedExactlyOnce ==
    /\ [](Cardinality(Finished) <= 1)
    /\ [](pc = "done" <=> Cardinality(Finished) = 1)
    /\ (pc = "run" ~> pc = "done")

\* A run with a success, an I/O failure and a stop() has ended with its one
\* finished signal.
W6_RunEnded ==
    /\ pc = "done"
    /\ Cardinality(Finished) = 1
    /\ nfaults > 0
    /\ stop_at.called
    /\ Successes # {}
    /\ Failures # {}

\* C7: every entry whose erase_file call returned added one to exactly one
\* of success_count (True) and fail_count (False), so the two counters sum
\* to the number of calls returned; at the end, together with the entries
\* not reached because of cancellation, they sum to the length of the list.
C7_Accounting ==
    (pc \in {"loop", "finish", "done"} \/ InErase) =>
        /\ success_count = Cardinality(Successes)
        /\ fail_count = Cardinality(Failures)
        /\ success_count + fail_count = Len(calls)
        /\ total = Len(files)
        /\ pc = "done" =>
              /\ success_count + fail_count + Cardinality(NotReached)
                    = Len(files)
              /\ events[Len(events)] = EvFinished(success_count, fail_count)
              /\ NotReached # {} =>
                    \E k \in 1..Len(events) : events[k].kind = "stopped"

\* A cancelled run ended with successes, failures and entries not reached.
W7_MixedOutcomes ==
    /\ pc = "done"
    /\ success_count > 0
    /\ fail_count > 0
    /\ NotReached # {}

\* The elements of a sequence.
Range(s) == {s[k] : k \in 1..Len(s)}

RECURSIVE Encloses(_, _)
\* Directory dir holds p, directly or at any depth.
Encloses(dir, p) ==
    \E kid \in Children(dir) : kid = p \/ Encloses(kid, p)

\* The targets (positions in all_paths) that name file p or a directory
\* enclosing it.
Naming(p) ==
    {k \in 1..Len(all_paths) :
        all_paths[k] = p \/ Encloses(all_paths[k], p)}

\* The calls, returned or in flight, made for path p.
CallsOf(p) ==
    Cardinality({n \in 1..Len(calls) : calls[n].path = p})
        + (IF InErase /\ call.path = p THEN 1 ELSE 0)

\* C8 (as claimed): in the run over get_all_files' list every file path is
\* passed to erase_file at most once, also when two targets name the file.
C8_PathAtMostOnce ==
    \A p \in FilePaths : CallsOf(p) <= 1

\* C8 (amended): every entry of the list is passed to erase_file at most
\* once, in list order, and yields at most one outcome; a file path is
\* processed at most once for each target that names it or encloses it.
C8_EntryAtMostOnce ==
    /\ \A n \in 1..Len(calls) :
          calls[n].idx = n /\ calls[n].path = files[n]
    /\ InErase => call.idx = Len(calls) + 1 /\ call.path = files[call.idx]
    /\ Len(calls) <= Len(files)
    /\ \A p \in Range(files) : CallsOf(p) <= Cardinality(Naming(p))

\* A run ended in which a file named by a file target and by an enclosing
\* directory target was erased twice.
W8_NamedTwiceErasedTwice ==
    /\ pc = "done"
    /\ \E p \in FilePaths :
          /\ CallsOf(p) = 2
          /\ \E a, b \in Naming(p) :
                all_paths[a] = p /\ Encloses(all_paths[b], p)

\* The place of a notification among those of its file.
Rank(e) ==
    CASE e.sig = "file_progress" -> 0
      [] e.kind = "processing" -> 1
      [] OTHER -> 1 + e.x

\* C9: all notifications of file n (its processing event and its step
\* notifications) are emitted before any notification of file n+1, the
\* files being taken one at a time in list order; the finished signal comes
\* after the last per-file notification or the cancellation point, and no
\* event follows it.
C9_EventOrder ==
    /\ \A a \in 1..(Len(events) - 1) :
          (events[a].of > 0 /\ events[a + 1].of > 0) =>
              /\ events[a].of <= events[a + 1].of
              /\ events[a + 1].of <= events[a].of + 1
              /\ events[a].of = events[a + 1].of =>
                    Rank(events[a]) < Rank(events[a + 1])
    /\ events # <<>> => events[1].of <= 1
    /\ \A k \in 1..Len(events) :
          /\ events[k].of = 0 => events[k].kind = "stopped" \/ k \in Finished
          /\ events[k].of > 0 =>
              /\ events[k].of <= Len(files)
              /\ events[k].sig = "progress" =>
                    events[k].name = Name(files[events[k].of])
    /\ InErase => \A k \in 1..Len(events) : events[k].of <= call.idx
    /\ \A k \in 1..Len(events) :
          /\ k \in Finished => k = Len(events)
          /\ events[k].kind = "stopped" =>
                k = Len(events) \/ (k + 1 = Len(events) /\ k + 1 \in Finished)
    /\ pc = "done" <=> (events # <<>> /\ Len(events) \in Finished)

\* A completed run of two differently named files, each of which announced
\* step 1, followed by the finished signal.
W9_TwoFilesThenFinished ==
    /\ pc = "done"
    /\ Len(files) >= 2
    /\ files[1] # files[2]
    /\ \E a, b \in 1..Len(events) :
          /\ events[a].kind = "step" /\ events[a].of = 1
          /\ events[b].kind = "step" /\ events[b].of = 2
    /\ Len(events) \in Finished

\* erase_file is about to return from a call in which an operating-system
\* call (read, open, write, flush or fsync) raised.
IoFailedReturn == pc = "ret" /\ call.fault[1] # "none"

\* s is the first Len(s) elements of t.
IsPrefix(s, t) == Len(s) <= Len(t) /\ s = SubSeq(t, 1, Len(s))

\* C11: an I/O error raised by the read, write, flush or fsync of a step
\* makes erase_file return False without raising, skips the file's remaining
\* steps, leaves the file as the failing step left it (no rollback; stated
\* for a file no other program removed meanwhile), adds one to fail_count
\* only, and the run goes on to the next entry.
C11_IoErrorIsFailure ==
    /\ [](pc # "crashed")
    /\ [](IoFailedReturn =>
            /\ result = FALSE
            /\ call.exc = "OSError"
            /\ cur_pass = call.fault[2]
            /\ \A k \in 1..Len(call.notified) :
                  call.notified[k] <= call.fault[2]
            /\ call.fault[1] = "read" => call.notified = <<>>
            /\ (call.fault[1] = "read" /\ ~call.removed) =>
                  Len(disk[call.path].data) = call.size0
            /\ (call.fault[1] = "open" /\ ~call.removed) =>
                  disk[call.path].data = original_content
            /\ (call.fault[1] = "write" /\ ~call.removed) =>
                  /\ IsPrefix(disk[call.path].data, buf)
                  /\ disk[call.path].data # original_content)
    /\ [][IoFailedReturn =>
            \/ UNCHANGED <<pc, counters, result>>
            \/ /\ fail_count' = fail_count + 1
               /\ success_count' = success_count
               /\ disk' = disk
               /\ i' = i + 1
               /\ pc' = "loop"]_vars

\* After a write that failed part-way on the first entry, leaving a stump of
\* the file, the failure is counted and the second entry is being erased.
W11_FailedThenNext ==
    /\ InErase
    /\ call.idx = 2
    /\ call.fault[1] = "none"
    /\ nfaults = 1
    /\ fail_count = 1
    /\ calls[1].path # call.path
    /\ Len(disk[calls[1].path].data) \in 1..(NewSize(MaxSize) - 1)

\* erase_file is about to return from a call on a path that did not exist
\* when it was called.
NotFoundReturn == pc = "ret" /\ ~call.existed

\* C12: erase_file on a path that does not exist returns False and never
\* raises; the failure is counted for that entry only and the run goes on to
\* the next entry.
C12_MissingPathIsFailure ==
    /\ [](NotFoundReturn =>
            /\ result = FALSE
            /\ call.exc = "none"
            /\ call.fault[1] = "none"
            /\ call.notified = <<>>
            /\ call.written = {})
    /\ [][NotFoundReturn =>
            \/ UNCHANGED <<pc, counters, result>>
            \/ /\ fail_count' = fail_count + 1
               /\ success_count' = success_count
               /\ calls' = Append(calls, Returned(call, FALSE))
               /\ i' = i + 1
               /\ pc' = "loop"]_vars

\* The first entry was gone when its turn came and was counted as failed; the
\* second entry, an existing file, is now being erased.
W12_MissingThenNext ==
    /\ InErase
    /\ call.idx = 2
    /\ call.existed
    /\ ~disk[calls[1].path].exists
    /\ ~calls[1].result
    /\ fail_count = 1
    /\ success_count = 0

\* erase_file is about to return from a call on a file that had no bytes,
\* whose read did not fail and which no other program removed meanwhile.
EmptyFileReturn ==
    /\ pc = "ret"
    /\ call.existed
    /\ call.size0 = 0
    /\ call.fault[1] = "none"
    /\ ~call.removed

\* C13: erase_file on a zero-byte file returns True, announces no step,
\* writes nothing and leaves the file in place with size 0.
C13_EmptyFileSkipped ==
    /\ EmptyFileReturn =>
          /\ result = TRUE
          /\ call.notified = <<>>
          /\ call.written = {}
          /\ call.synced = {}
          /\ cur_pass = 0
          /\ disk[call.path] = [exists |-> TRUE, data |-> <<>>]
          /\ \A k \in 1..Len(events) :
                events[k].kind = "step" => events[k].of # call.idx
    /\ (InErase /\ call.existed /\ call.size0 = 0) =>
          pc \in {"exists", "read", "ret"}

\* A zero-byte file was erased as the second entry, after a file that had
\* bytes.
W13_EmptyFileReturned ==
    /\ EmptyFileReturn
    /\ result = TRUE
    /\ call.idx = 2
    /\ \E k \in 1..Len(events) : events[k].kind = "step"

\* The positions in events of the file_progress signals.
FileProgressAt == {k \in 1..Len(events) : events[k].sig = "file_progress"}

\* The number of entries the worker has started so far.
Started == Len(calls) + (IF InErase THEN 1 ELSE 0)

\* C15: for every entry the worker starts there is exactly one file_progress
\* signal, carrying (position of the entry, length of the list), emitted
\* before any step of that entry is announced; the positions go up by one
\* from 1, and no file_progress is emitted for an entry that is not reached.
C15_FileProgressPerFile ==
    /\ Cardinality(FileProgressAt) = Started
    /\ \A n \in 1..Started :
          \E k \in FileProgressAt :
             /\ events[k].x = n
             /\ events[k].y = Len(files)
             /\ Cardinality({j \in FileProgressAt : j < k}) = n - 1
             /\ \A j \in 1..Len(events) :
                   (events[j].kind = "step" /\ events[j].of = n) => k < j
    /\ \A k \in FileProgressAt : events[k].x \in 1..Started

\* A run over three entries was stopped during the second: two file_progress
\* signals were emitted, a step of the second entry was announced, and the
\* third entry was not reached.
W15_TwoStartedOneNotReached ==
    /\ pc = "done"
    /\ Len(files) = 3
    /\ Cardinality(FileProgressAt) = 2
    /\ \E j \in 1..Len(events) : events[j].kind = "step" /\ events[j].of = 2

\* The positions in events of the "Erasing stopped by user" messages.
StoppedAt == {k \in 1..Len(events) : events[k].kind = "stopped"}

\* stop() was first called when no entry was left to start: during the last
\* entry, or after it.
StoppedTooLate ==
    /\ stop_at.called
    /\ \/ stop_at.phase = "during" /\ stop_at.done = Len(files) - 1
       \/ stop_at.phase = "between" /\ stop_at.done = Len(files)
       \/ stop_at.phase = "after"

\* C18: when stop() is first called during or after the last entry, the run
\* ends with every entry processed, success_count + fail_count equal to the
\* length of the list, and no "Erasing stopped by user" message; in any run
\* that message is emitted at most once, and only when an entry was not
\* reached.
C18_LateStopChangesNothing ==
    /\ StoppedTooLate => StoppedAt = {}
    /\ (StoppedTooLate /\ pc = "done") =>
          /\ Len(calls) = Len(files)
          /\ NotReached = {}
          /\ \E k \in Finished : events[k].x + events[k].y = Len(files)
    /\ Cardinality(StoppedAt) <= 1
    /\ StoppedAt # {} => NotReached # {}

\* A run over two entries ended after stop() was called during the second.
W18_StoppedDuringLast ==
    /\ pc = "done"
    /\ Len(files) = 2
    /\ stop_at = [called |-> TRUE, done |-> 1, phase |-> "during"]
    /\ ~is_running
    /\ StoppedAt = {}

\* C19: from the call of erase_file on a file of N bytes to its return, the
\* file never has more than N bytes, and its size after a step is never
\* above its size after the step before; erase_file on a path that did not
\* exist when it was called does not create it; and handing the result to
\* run() changes no file.
C19_NeverGrows ==
    /\ [](InErase =>
            /\ Len(disk[call.path].data) <= call.size0
            /\ \A k \in 1..Len(call.sizes) : call.sizes[k] <= call.size0
            /\ \A k \in 2..Len(call.sizes) :
                  call.sizes[k] <= call.sizes[k - 1]
            /\ ~call.existed => ~disk[call.path].exists)
    /\ [][(pc = "ret" /\ pc' # "ret") => disk' = disk]_vars

\* Step 1 has rewritten a file of MaxSize bytes with fewer bytes, more than
\* none.
W19_ShrunkByStepOne ==
    /\ pc = "ret"
    /\ call.size0 = MaxSize
    /\ 1 \in call.written
    /\ Len(disk[call.path].data) \in 1..(MaxSize - 1)

\* The existing files target t stands for: t itself when it is a file, the
\* files at any depth below it when it is a directory, none otherwise.
Covered(d, t) ==
    {p \in FilePaths : d[p].exists /\ (p = t \/ Encloses(t, p))}

RECURSIVE CoveredBefore(_, _, _)
\* The number of entries the targets before the k-th stand for.
CoveredBefore(d, ts, k) ==
    IF k <= 1 THEN 0
    ELSE CoveredBefore(d, ts, k - 1) + Cardinality(Covered(d, ts[k - 1]))

\* start_erasing has resolved the targets.
Resolved == pc \in {"confirm", "no_files"}

\* C16: get_all_files returns, target by target in the order of the targets,
\* one entry for a target that is an existing file and one entry for every
\* file at any depth below a target that is a directory, and nothing for a
\* target that does not exist; it changes no file. A directory with three
\* files and a sub-directory with two files gives exactly five paths.
C16_ResolverCoversTargets ==
    /\ [](Resolved =>
            /\ Len(files) = CoveredBefore(disk, all_paths, Len(all_paths) + 1)
            /\ \A k \in 1..Len(all_paths) :
                  LET from == CoveredBefore(disk, all_paths, k)
                      to == CoveredBefore(disk, all_paths, k + 1)
                  IN /\ to <= Len(files)
                     /\ {files[j] : j \in (from + 1)..to} =
                           Covered(disk, all_paths[k])
            /\ (all_paths = <<"e">> /\ \A p \in FilePaths : disk[p].exists)
                  => Len(files) = 5)
    /\ [][pc = "idle" => disk' = disk]_vars

\* Directory e, with its three files and the two files of its sub-directory
\* n in place, was resolved to five paths, the nested ones included, in the
\* order an ext4 host lists them.
W16_ThreePlusTwo ==
    /\ Resolved
    /\ all_paths = <<"e">>
    /\ \A p \in FilePaths : disk[p].exists
    /\ files = <<"e/3", "e/2", "e/1", "e/n/5", "e/n/4">>

\* data is m bytes, byte number k (from 0) being byte k mod 12 of
\* "hello world ".
IsHelloPattern(data, m) ==
    /\ Len(data) = m
    /\ \A k \in 1..m : data[k] = hello[((k - 1) % 12) + 1]

\* The bytes step 3 computes have that form for every length.
HelloDataIsPattern ==
    \A m \in 0..(2 * MaxSize) : IsHelloPattern(hello_data(m), m)

\* Once step 3 has written, the file holds that pattern in M bytes.
Step3LeavesPattern ==
    (pc = "sync" /\ cur_pass = 3) =>
        IsHelloPattern(disk[call.path].data, NewSize(call.size0))

\* C17: for every M >= 0 the data step 3 writes has exactly M bytes, byte i
\* being byte i mod 12 of "hello world ", and every call on a non-empty file
\* in which nothing fails comes to hold that data in the file, between
\* step 3 and step 4.
C17_Pass3Pattern ==
    /\ HelloDataIsPattern
    /\ Step3LeavesPattern
    /\ FaultFreeReturn => 3 \in call.written

\* The batch has been run twice and the second run has ended.
TwoRunsDone == pc = "done" /\ Cardinality(Finished) = 2

\* Nothing disturbed either run: no operating-system call failed and nobody
\* stopped a run.
Undisturbed ==
    /\ nfaults = 0
    /\ ~stop_at.called
    /\ \A n \in 1..Len(calls) : disk[calls[n].path].exists

\* The number of entries the first run reported on.
FirstRunLength ==
    LET first == CHOOSE k \in Finished : \A j \in Finished : k <= j
    IN events[first].x + events[first].y

\* The second run was over the list of the first, whose files were all
\* zero-byte when their turn came.
SameBatchOfEmptyFiles ==
    /\ FirstRunLength = Len(files)
    /\ FirstRunLength <= Len(calls)
    /\ \A n \in 1..FirstRunLength :
          calls[n].path = files[n] /\ calls[n].empty

\* C14: when the same batch is run twice over files that are zero-byte
\* before the first run, erase_file returns True for every file in both
\* runs, both runs report the same counts (k, 0) for the k listed files, and
\* every file is still in place, empty, after each run.
C14_RerunOverEmptyFiles ==
    (TwoRunsDone /\ Undisturbed /\ SameBatchOfEmptyFiles)
    => /\ Len(calls) = 2 * Len(files)
       /\ \A n \in 1..Len(calls) :
             /\ calls[n].result
             /\ calls[n].empty
             /\ calls[n].path = files[((n - 1) % Len(files)) + 1]
             /\ disk[calls[n].path] = [exists |-> TRUE, data |-> <<>>]
       /\ \A k \in Finished :
             events[k].x = Len(files) /\ events[k].y = 0

\* Directory d with its two files, both empty, was erased twice.
W14_TwoEmptyFilesTwice ==
    /\ TwoRunsDone
    /\ Undisturbed
    /\ SameBatchOfEmptyFiles
    /\ Len(files) = 2
    /\ Len(calls) = 4
    /\ \A n \in 1..4 : calls[n].result /\ calls[n].empty
    /\ success_count = 2
    /\ fail_count = 0

====
